---- MODULE Spec2Model ----
(***************************************************************************)
(* Model of the computational core of the flight-planning pages:           *)
(*   - pages/Planches_de_vols.py : preprocess_data and the 'Vacation Line' *)
(*     loop of create_interactive_gantt (Policy A),                        *)
(*   - pages/Test.py : preprocess_data and assign_vacation_lines           *)
(*     (Policy B),                                                         *)
(*   - pages/Eté_2025.py : prepare_data / compute_start_end, the load     *)
(*     series (charge_global, charge, besoin_escabeaux),                   *)
(*   - the flight totals of calculate_flight_stats and create_pdf_report.  *)
(* Instants are minutes counted from midnight of the row's date            *)
(* (a datetime is an absolute instant, so a synthesized bound may be       *)
(* negative or exceed 1439).                                               *)
(***************************************************************************)
EXTENDS Integers, Sequences, FiniteSets, TLC

\* ---------------------------------------------------------------- bounds
MaxRows == 3        \* rows of a scheduled table of intervals with HA <= HD
MaxAnyRows == 2     \* rows of a scheduled table that may hold rows with HA > HD
MaxLiveRows == 2    \* rows of a table in the fair specification
MaxTick == 2        \* instants of the bounded tables are 0h .. MaxTick h
MaxRawRows == 2     \* rows of the raw table handed to a normalizer
MaxCodeRows == 1    \* rows of a raw table whose flight codes are filled in
MaxDayRows == 2     \* rows of the sheet a page script loads
MaxCalls == 2       \* invocations of a scheduler on one table
MaxGrid == 30       \* the sampling grids run from 05:00 to 05:00 + MaxGrid min

VARIABLES
    pc,             \* position in the running function
    policy,         \* "A": create_interactive_gantt of Planches_de_vols.py,
                    \* "B": assign_vacation_lines of Test.py
    data,           \* the table handed to the scheduler: rows [HA, HD]
    order,          \* Policy B: row labels in the order of df.sort_values('HA')
    VacationLine,   \* the 'Vacation Line' column, by row label (<<>>: no column yet)
    idx,            \* Policy A: label of the next row of data.iterrows()
    vacation_line,  \* Policy B: the counter vacation_line
    amplitude_hours,\* Policy B: vacation_amplitude_hours
    gap_minutes,    \* Policy B: min_gap_minutes
    written,        \* row labels whose 'Vacation Line' cell the scan has written
    anchors,        \* Policy B: first_flight of each round, in round order
    norm,           \* the normalizer that runs: "preprocess_data" | "prepare_data"
    raw,            \* the raw table handed to the normalizer
    df,             \* the normalizer's working frame, by row label
    out,            \* labels of the rows of the frame the normalizer returns
    calls,          \* number of invocations of the scheduler on the table so far
    page,           \* the page script that runs: "Ete" | "Planches" | "none"
    selected_date,  \* the date chosen in the select box (0: none yet)
    df_filtered,    \* labels of the rows of the selected date, in frame order
    compagnies,     \* Eté: df["Compagnie"].dropna().unique()
    charge_global,  \* Eté: the list charge_global
    charge,         \* Eté: the list charge of each compagnie, in compagnies order
    besoin_escabeaux,   \* Eté: the list besoin_escabeaux
    flights_per_company,\* Planches: flights_per_company of calculate_flight_stats
    total_flights,      \* Planches: total_flights of calculate_flight_stats
    pdf_total_flights   \* Planches: total_flights of create_pdf_report

normVars == <<norm, raw, df, out>>

pageVars == <<page, selected_date, df_filtered, compagnies, charge_global,
              charge, besoin_escabeaux, flights_per_company, total_flights,
              pdf_total_flights>>

vars == <<pc, policy, data, order, VacationLine, idx, vacation_line,
          amplitude_hours, gap_minutes, written, anchors, norm, raw, df, out,
          calls, page, selected_date, df_filtered, compagnies, charge_global,
          charge, besoin_escabeaux, flights_per_company, total_flights,
          pdf_total_flights>>

\* ------------------------------------------------------------ input sets
Instants == {60 * k : k \in 0..MaxTick}

\* A row of the table: HA and HD as produced by preprocess_data, which uses
\* the two times directly when both are present (HA > HD is not excluded).
Rows == [HA : Instants, HD : Instants]
IntervalRows == {r \in Rows : r.HA <= r.HD}

RECURSIVE TablesOfLen(_, _)
TablesOfLen(rows, n) ==
    IF n = 0 THEN {<<>>}
    ELSE {Append(t, r) : t \in TablesOfLen(rows, n - 1), r \in rows}

TablesUpTo(rows, n) == UNION {TablesOfLen(rows, k) : k \in 0..n}

BoundedTables ==
    TablesUpTo(IntervalRows, MaxRows) \cup TablesUpTo(Rows, MaxAnyRows)

\* the parameter values of the bounded runs
AmplitudeHours == {1, 2}
GapMinutes == {0, 60}

Row(a, d) == [HA |-> a, HD |-> d]

\* A=[08:00,08:40], B=[08:20,09:00], C=[09:10,09:50]
ScenarioABC == <<Row(480, 520), Row(500, 540), Row(550, 590)>>

\* four intervals forming a path a-b-c-d of strict overlaps, no instant
\* covered by three of them
PathRows == {Row(0, 60), Row(0, 180), Row(120, 300), Row(240, 300)}
PathTables ==
    {t \in [1..4 -> PathRows] : \A i, j \in 1..4 : i # j => t[i] # t[j]}

\* four intervals with pairwise distinct starts, on a 30 min grid, and the
\* tables that hold three or four of them in any order
StaggerRows == {Row(0, 90), Row(30, 60), Row(60, 150), Row(90, 120)}
StaggerTables ==
    {t \in [1..3 -> StaggerRows] \cup [1..4 -> StaggerRows] :
        \A i, j \in DOMAIN t : i # j => t[i] # t[j]}

Labels(d) == 1..Len(d)

\* -------------------------------------------------------------- helpers
Min(S) == CHOOSE x \in S : \A y \in S : x <= y
Max(S) == CHOOSE x \in S : \A y \in S : x >= y

\* the amplitude taken as a number of minutes
Hours_asMinutes(h) == h

\* timedelta(hours=h), timedelta(minutes=m) in minutes
Hours(h) == 60 * h
Minutes(m) == m

\* the assignment creates the column and leaves an existing one alone
assign_column_missing(d, VL, value) ==
    IF VL = <<>> THEN [j \in Labels(d) |-> value] ELSE VL

\* data['Vacation Line'] = value: every cell of the column, whether the
\* column exists already (with cells VL) or not
assign_column(d, VL, value) == [j \in Labels(d) |-> value]

\* ------------------------------------------------------------- Policy A
\* overlap tested on the row's start instant only
overlapping_startOnly(d, VL, line, row) ==
    {j \in Labels(d) : VL[j] = line /\ d[j].HA < row.HA /\ d[j].HD > row.HA}

\* data[(data['Vacation Line'] == line) & ((data['HA'] < row['HD']) & (data['HD'] > row['HA']))]
overlapping(d, VL, line, row) ==
    {j \in Labels(d) : VL[j] = line /\ d[j].HA < row.HD /\ d[j].HD > row.HA}

\* data['Vacation Line'].unique()
unique(VL) == {VL[j] : j \in 1..Len(VL)}

\* range(len(data['Vacation Line'].unique()))
CandidateLines_short(VL) == 0..(Cardinality(unique(VL)) - 1)

\* range(len(data['Vacation Line'].unique()) + 1)
CandidateLines(VL) == 0..((Cardinality(unique(VL)) + 1) - 1)

\* the scanned row itself is left out of the overlapping frame
FreeLines_noself(d, VL, row) ==
    {line \in CandidateLines(VL) :
        overlapping(d, VL, line, row) \ {j \in Labels(d) : d[j] = row} = {}}

\* the lines of the scan on which the overlapping frame is empty
FreeLines(d, VL, row) ==
    {line \in CandidateLines(VL) : overlapping(d, VL, line, row) = {}}

\* the scan without its `break`: the last empty line wins
chosen_line_last(free) == Max(free)

\* `if overlapping.empty: data.at[idx, 'Vacation Line'] = line; break`:
\* the first line of the scan whose overlapping frame is empty
chosen_line(free) == Min(free)

\* data['Vacation Line'] = 0
GanttStart ==
    /\ pc = "start" /\ policy = "A"
    /\ VacationLine' = assign_column(data, VacationLine, 0)
    /\ idx' = 1
    /\ pc' = "gantt_loop"
    /\ UNCHANGED <<pageVars, normVars, calls, policy, data, order, vacation_line, amplitude_hours,
                   gap_minutes, written, anchors>>

\* one iteration of `for idx, row in data.iterrows()`, inner scan included
GanttRow ==
    /\ pc = "gantt_loop" /\ idx <= Len(data)
    /\ LET free == FreeLines(data, VacationLine, data[idx]) IN
         IF free = {}
         THEN UNCHANGED <<VacationLine, written>>
         ELSE /\ VacationLine' = [VacationLine EXCEPT ![idx] = chosen_line(free)]
              /\ written' = written \cup {idx}
    /\ idx' = idx + 1
    /\ UNCHANGED <<pageVars, normVars, calls, pc, policy, data, order, vacation_line, amplitude_hours,
                   gap_minutes, anchors>>

\* data.iterrows() is exhausted
GanttDone ==
    /\ pc = "gantt_loop" /\ idx > Len(data)
    /\ pc' = "done"
    /\ UNCHANGED <<pageVars, normVars, calls, policy, data, order, VacationLine, idx, vacation_line,
                   amplitude_hours, gap_minutes, written, anchors>>

\* ------------------------------------------------------------- Policy B
\* the frame left in the order of the input rows
SortedOrders_asGiven(d) == {[j \in Labels(d) |-> j]}

\* the row orders df.sort_values('HA') may produce: ascending HA, rows of
\* equal HA in any relative order (the default sort kind is not stable)
SortedOrders(d) ==
    {o \in [Labels(d) -> Labels(d)] :
        /\ \A i, j \in Labels(d) : i # j => o[i] # o[j]
        /\ \A i, j \in Labels(d) : i < j => d[o[i]].HA <= d[o[j]].HA}

\* the unassigned rows taken from the last one of the frame to the first
unassigned_flights_descending(o, VL) ==
    LET un == SelectSeq(o, LAMBDA l : VL[l] = -1)
    IN [k \in 1..Len(un) |-> un[Len(un) + 1 - k]]

\* df[df['Vacation Line'] == -1], as labels in frame order
unassigned_flights(o, VL) == SelectSeq(o, LAMBDA l : VL[l] = -1)

\* the overlap test without the gap
GapConflict_nogap(flight, assigned_flight, min_gap) ==
    /\ flight.HA < assigned_flight.HD
    /\ flight.HD > assigned_flight.HA

\* flight['HA'] - min_gap < assigned_flight['HD'] and
\* flight['HD'] + min_gap > assigned_flight['HA']
GapConflict(flight, assigned_flight, min_gap) ==
    /\ flight.HA - min_gap < assigned_flight.HD
    /\ flight.HD + min_gap > assigned_flight.HA

\* the join test without the window condition
can_assign_unbounded(d, flight, line_flights, vacation_end, min_gap) ==
    \A k \in 1..Len(line_flights) :
        ~GapConflict(d[flight], d[line_flights[k]], min_gap)

\* body of `for _, flight in unassigned_flights.iloc[1:].iterrows()`
can_assign(d, flight, line_flights, vacation_end, min_gap) ==
    /\ d[flight].HD <= vacation_end
    /\ \A k \in 1..Len(line_flights) :
           ~GapConflict(d[flight], d[line_flights[k]], min_gap)

\* the scan stops at the first flight that cannot join
RECURSIVE ScanFlights_stop(_, _, _, _, _)
ScanFlights_stop(d, rest, line_flights, vacation_end, min_gap) ==
    IF rest = <<>> THEN line_flights
    ELSE IF can_assign(d, Head(rest), line_flights, vacation_end, min_gap)
         THEN ScanFlights_stop(d, Tail(rest), Append(line_flights, Head(rest)),
                               vacation_end, min_gap)
         ELSE line_flights

\* the for loop over unassigned_flights.iloc[1:]: every flight is tested
\* against the window and the flights already in line_flights
RECURSIVE ScanFlights(_, _, _, _, _)
ScanFlights(d, rest, line_flights, vacation_end, min_gap) ==
    IF rest = <<>> THEN line_flights
    ELSE IF can_assign(d, Head(rest), line_flights, vacation_end, min_gap)
         THEN ScanFlights(d, Tail(rest), Append(line_flights, Head(rest)),
                          vacation_end, min_gap)
         ELSE ScanFlights(d, Tail(rest), line_flights, vacation_end, min_gap)

\* the window measured from the anchor's end instead of its start
RoundFlights_fromEnd(d, o, VL, amp_h, gap_m) ==
    LET un == unassigned_flights(o, VL)
        first_flight == Head(un)
        vacation_end == d[first_flight].HD + Hours(amp_h)
    IN ScanFlights(d, Tail(un), <<first_flight>>, vacation_end, Minutes(gap_m))

\* line_flights at the end of one round of the while loop
RoundFlights(d, o, VL, amp_h, gap_m) ==
    LET un == unassigned_flights(o, VL)
        first_flight == Head(un)
        vacation_start == d[first_flight].HA
        vacation_end == vacation_start + Hours(amp_h)
    IN ScanFlights(d, Tail(un), <<first_flight>>, vacation_end, Minutes(gap_m))

SeqRange(s) == {s[k] : k \in 1..Len(s)}

\* only the joiners are written, the anchor's cell is forgotten
line_members_joiners(line_flights) == SeqRange(Tail(line_flights))

\* the rows one round writes: df.loc[first_flight.name, 'Vacation Line'] and
\* df.loc[flight.name, 'Vacation Line'] of every flight appended to line_flights
line_members(line_flights) == SeqRange(line_flights)

\* df = data.copy(); df = df.sort_values('HA'); df['Vacation Line'] = -1
AssignStart ==
    /\ pc = "start" /\ policy = "B"
    /\ \E o \in SortedOrders(data) : order' = o
    /\ VacationLine' = assign_column(data, VacationLine, -1)
    /\ vacation_line' = 0
    /\ pc' = "assign_loop"
    /\ UNCHANGED <<pageVars, normVars, calls, policy, data, idx, amplitude_hours, gap_minutes,
                   written, anchors>>

\* one round of `while df[df['Vacation Line'] == -1].shape[0] > 0`
AssignRound ==
    /\ pc = "assign_loop"
    /\ unassigned_flights(order, VacationLine) # <<>>
    /\ LET line_flights == RoundFlights(data, order, VacationLine,
                                        amplitude_hours, gap_minutes)
           members == line_members(line_flights)
       IN /\ VacationLine' = [j \in Labels(data) |->
                                 IF j \in members THEN vacation_line
                                 ELSE VacationLine[j]]
          /\ written' = written \cup members
          /\ anchors' = Append(anchors, Head(line_flights))
    /\ vacation_line' = vacation_line + 1
    /\ UNCHANGED <<pageVars, normVars, calls, pc, policy, data, order, idx, amplitude_hours, gap_minutes>>

\* the while condition is false: return df
AssignDone ==
    /\ pc = "assign_loop"
    /\ unassigned_flights(order, VacationLine) = <<>>
    /\ pc' = "done"
    /\ UNCHANGED <<pageVars, normVars, calls, policy, data, order, VacationLine, idx, vacation_line,
                   amplitude_hours, gap_minutes, written, anchors>>

\* ------------------------------------------------------- specification
\* no page script runs
NoPage ==
    /\ page = "none" /\ selected_date = 0 /\ df_filtered = <<>>
    /\ compagnies = <<>> /\ charge_global = <<>> /\ charge = <<>>
    /\ besoin_escabeaux = <<>> /\ flights_per_company = <<>>
    /\ total_flights = 0 /\ pdf_total_flights = 0

InitA ==
    /\ policy = "A"
    /\ data \in BoundedTables \cup PathTables
    /\ amplitude_hours = 0 /\ gap_minutes = 0

InitB ==
    /\ policy = "B"
    /\ \/ /\ data \in BoundedTables
          /\ amplitude_hours \in AmplitudeHours
          /\ gap_minutes \in GapMinutes
       \/ /\ data = ScenarioABC
          /\ amplitude_hours = 8 /\ gap_minutes = 10
       \/ /\ data \in StaggerTables
          /\ amplitude_hours \in {1, 3}
          /\ gap_minutes \in {0, 30}

Init ==
    /\ pc = "start"
    /\ InitA \/ InitB
    /\ order = <<>> /\ VacationLine = <<>>
    /\ idx = 0 /\ vacation_line = 0
    /\ written = {} /\ anchors = <<>>
    /\ norm = "none" /\ raw = <<>> /\ df = <<>> /\ out = <<>>
    /\ calls = 1 /\ NoPage

Next ==
    \/ GanttStart \/ GanttRow \/ GanttDone
    \/ AssignStart \/ AssignRound \/ AssignDone

Spec == Init /\ [][Next]_vars

\* --- the scheduler called again on the table of the page ---
\* Planches_de_vols.py: create_interactive_gantt(filtered_data, ...) is
\* called a second time on the same frame, which now has the
\* 'Vacation Line' column of the first call
GanttAgain ==
    /\ pc = "done" /\ policy = "A" /\ calls < MaxCalls
    /\ calls' = calls + 1
    /\ written' = {}
    /\ pc' = "start"
    /\ UNCHANGED <<pageVars, normVars, policy, data, order, VacationLine, idx,
                   vacation_line, amplitude_hours, gap_minutes, anchors>>

\* Test.py: assign_vacation_lines(data, vacation_amplitude, min_gap) is
\* called again on the same frame with the sliders' current values; the
\* frame df of the earlier call is not an argument
AssignAgain ==
    /\ pc = "done" /\ policy = "B" /\ calls < MaxCalls
    /\ calls' = calls + 1
    /\ amplitude_hours' \in AmplitudeHours
    /\ gap_minutes' \in GapMinutes
    /\ VacationLine' = <<>> /\ order' = <<>>
    /\ written' = {} /\ anchors' = <<>>
    /\ pc' = "start"
    /\ UNCHANGED <<pageVars, normVars, policy, data, idx, vacation_line>>

InitAgain ==
    /\ pc = "start"
    /\ data \in TablesUpTo(Rows, MaxAnyRows)
    /\ \/ policy = "A" /\ amplitude_hours = 0 /\ gap_minutes = 0
       \/ /\ policy = "B"
          /\ amplitude_hours \in AmplitudeHours
          /\ gap_minutes \in GapMinutes
    /\ order = <<>> /\ VacationLine = <<>>
    /\ idx = 0 /\ vacation_line = 0
    /\ written = {} /\ anchors = <<>>
    /\ norm = "none" /\ raw = <<>> /\ df = <<>> /\ out = <<>>
    /\ calls = 1 /\ NoPage

NextAgain == Next \/ GanttAgain \/ AssignAgain

SpecAgain == InitAgain /\ [][NextAgain]_vars

TypeOK ==
    /\ pc \in {"start", "gantt_loop", "assign_loop", "done"}
    /\ policy \in {"A", "B"}
    /\ written \subseteq Labels(data)

\* ------------------------------------------------------------ normalizers
\* An optional value is a sequence of length <= 1: <<>> is None / NaN / NaT.
NaT == <<>>
At(t) == <<t>>
isna(x) == x = <<>>
notna(x) == x # <<>>
Val(x) == x[1]

schedVars == <<policy, data, order, VacationLine, idx, vacation_line,
               amplitude_hours, gap_minutes, written, anchors, calls>>

\* --- preprocess_data (Planches_de_vols.py; Test.py has the same text) ---
\* A raw time cell: kind "nan" (empty cell), "str3" (text 'h:m:s'),
\* "str2" (text 'h:m'), "text" (any other text), "time" (datetime.time),
\* "num" (a value of another type).  Seconds are 0 in every usable cell.
Cell(kind, h, m, s) == [kind |-> kind, h |-> h, m |-> m, s |-> s]

PreCells ==
    {Cell("nan", 0, 0, 0),
     Cell("str2", 0, 10, 0),        \* '00:10'
     Cell("str3", 12, 0, 0),        \* '12:00:00'
     Cell("time", 23, 45, 0),       \* datetime.time(23, 45)
     Cell("str2", 25, 0, 0)}        \* '25:00'

\* parse_time(time_value, date), as minutes from the midnight of `date`
parse_time(c) ==
    IF c.kind = "nan" THEN NaT
    ELSE IF c.kind = "str3"
         THEN IF c.h <= 23 /\ c.m <= 59 /\ c.s <= 61
              THEN At(60 * c.h + c.m) ELSE NaT
    ELSE IF c.kind = "str2"
         THEN IF c.h <= 23 /\ c.m <= 59 THEN At(60 * c.h + c.m) ELSE NaT
    ELSE IF c.kind = "time" THEN At(60 * c.h + c.m)
    ELSE NaT

\* lambda x: x + timedelta(minutes=30)
night_stop_HD(x) == x + 30

\* the default duration added instead of subtracted
depart_sec_HA_plus(x) == x + 30

\* lambda x: x - timedelta(minutes=30)
depart_sec_HA(x) == x - 30

\* df['HA'] = df.apply(parse_time ...); df['HD'] = df.apply(parse_time ...)
PreParse ==
    /\ pc = "start" /\ norm = "preprocess_data"
    /\ df' = [j \in Labels(raw) |->
                 [HA |-> parse_time(raw[j].HA), HD |-> parse_time(raw[j].HD)]]
    /\ pc' = "pre_night_stop"
    /\ UNCHANGED <<pageVars, schedVars, norm, raw, out>>

\* night_stop_mask = HA.notna() & HD.isna(); HD = HA + 30 min on the mask
PreNightStop ==
    /\ pc = "pre_night_stop"
    /\ df' = [j \in Labels(raw) |->
                 IF notna(df[j].HA) /\ isna(df[j].HD)
                 THEN [df[j] EXCEPT !.HD = At(night_stop_HD(Val(df[j].HA)))]
                 ELSE df[j]]
    /\ pc' = "pre_depart_sec"
    /\ UNCHANGED <<pageVars, schedVars, norm, raw, out>>

\* depart_sec_mask = HD.notna() & HA.isna(); HA = HD - 30 min on the mask
PreDepartSec ==
    /\ pc = "pre_depart_sec"
    /\ df' = [j \in Labels(raw) |->
                 IF notna(df[j].HD) /\ isna(df[j].HA)
                 THEN [df[j] EXCEPT !.HA = At(depart_sec_HA(Val(df[j].HD)))]
                 ELSE df[j]]
    /\ pc' = "pre_company"
    /\ UNCHANGED <<pageVars, schedVars, norm, raw, out>>

\* a flight code is an optional text, a text being a sequence of characters
isalpha(ch) == ch \in {"A", "B", "F", "R"}

\* the longest prefix of s made of letters
RECURSIVE LeadingRun(_)
LeadingRun(s) ==
    IF s = <<>> \/ ~isalpha(Head(s)) THEN <<>>
    ELSE <<Head(s)>> \o LeadingRun(Tail(s))

\* column.str.extract(r'^([A-Za-z]+)', expand=False) on one cell: NaN for an
\* empty cell and for a text that does not start with a letter
str_extract(code) ==
    IF isna(code) \/ LeadingRun(Val(code)) = <<>> THEN NaT
    ELSE At(LeadingRun(Val(code)))

\* df['Company'] = df['VOLD'].str.extract(...);
\* night_stop_company = df['VOLA'].str.extract(...);
\* df.loc[df['Company'].isna(), 'Company'] = night_stop_company
PreCompany ==
    /\ pc = "pre_company"
    /\ df' = [j \in Labels(raw) |->
                 LET Company == str_extract(raw[j].VOLD)
                     night_stop_company == str_extract(raw[j].VOLA)
                 IN [HA |-> df[j].HA, HD |-> df[j].HD,
                     Company |-> IF isna(Company) THEN night_stop_company
                                 ELSE Company]]
    /\ pc' = "pre_return"
    /\ UNCHANGED <<pageVars, schedVars, norm, raw, out>>

\* return df[df['HA'].notna() | df['HD'].notna()]
PreReturn ==
    /\ pc = "pre_return"
    /\ out' = SelectSeq([j \in Labels(raw) |-> j],
                        LAMBDA j : notna(df[j].HA) \/ notna(df[j].HD))
    /\ pc' = "done"
    /\ UNCHANGED <<pageVars, schedVars, norm, raw, df>>

\* --- prepare_data (Eté_2025.py) ---
\* A raw time cell: kind "nan", "dash" (the text '-'), "int" (hhmm number n).
ECell(kind, n) == [kind |-> kind, n |-> n]

EteCells ==
    {ECell("nan", 0), ECell("dash", 0),
     ECell("int", 10), ECell("int", 2345), ECell("int", 2500)}

\* format_hhmm_to_hhmm: str(time).zfill(4), then f"{time[:2]}:{time[2:]}";
\* the text 'hh:mm' is kept as its two digit groups
format_hhmm_to_hhmm(c) ==
    IF c.kind = "nan" \/ c.kind = "dash" THEN NaT
    ELSE At([hh |-> c.n \div 100, mm |-> c.n % 100])

\* pd.to_datetime(date + " " + text, errors="coerce"), minutes from midnight
to_datetime(text) ==
    IF text.hh <= 23 /\ text.mm <= 59 THEN At(60 * text.hh + text.mm) ELSE NaT

\* column.fillna("00:00")
fillna(x) == IF isna(x) THEN [hh |-> 0, mm |-> 0] ELSE Val(x)

\* t + pd.Timedelta(minutes=m); NaT stays NaT
Shift(t, m) == IF isna(t) THEN NaT ELSE At(Val(t) + m)

\* compute_start_end(row)
compute_start_end(row) ==
    LET start == IF isna(row.Arr) /\ ~isna(row.Dep)
                 THEN Shift(row.End, -35) ELSE row.Start
        end == IF isna(row.Dep) /\ ~isna(row.Arr)
               THEN Shift(row.Start, 35) ELSE row.End
    IN [row EXCEPT !.Start = start, !.End = end]

\* df["Arr"] = df["Arr"].apply(format_hhmm_to_hhmm); same for "Dép"
EteFormat ==
    /\ pc = "start" /\ norm = "prepare_data"
    /\ df' = [j \in Labels(raw) |->
                 [Arr |-> format_hhmm_to_hhmm(raw[j].Arr),
                  Dep |-> format_hhmm_to_hhmm(raw[j].Dep),
                  Start |-> NaT, End |-> NaT]]
    /\ pc' = "ete_start_end"
    /\ UNCHANGED <<pageVars, schedVars, norm, raw, out>>

\* df["Start"] = pd.to_datetime(... + df["Arr"].fillna("00:00"), errors="coerce")
\* df["End"] likewise from "Dép"
EteStartEnd ==
    /\ pc = "ete_start_end"
    /\ df' = [j \in Labels(raw) |->
                 [df[j] EXCEPT !.Start = to_datetime(fillna(df[j].Arr)),
                               !.End = to_datetime(fillna(df[j].Dep))]]
    /\ pc' = "ete_adjust"
    /\ UNCHANGED <<pageVars, schedVars, norm, raw, out>>

\* df[["Start", "End"]] = df.apply(compute_start_end, axis=1, ...)
EteAdjust ==
    /\ pc = "ete_adjust"
    /\ df' = [j \in Labels(raw) |-> compute_start_end(df[j])]
    /\ pc' = "ete_compagnie"
    /\ UNCHANGED <<pageVars, schedVars, norm, raw, out>>

\* extract_company_code(flight_number): every letter of the text, joined;
\* None for an empty cell and for the text '-'
extract_company_code(code) ==
    IF notna(code) /\ Val(code) # <<"-">>
    THEN At(SelectSeq(Val(code), isalpha)) ELSE NaT

\* the lambda of df["Compagnie"]: n°arr first, then n°dep, else None
Compagnie(row) ==
    IF notna(row.narr) /\ Val(row.narr) # <<"-">>
    THEN extract_company_code(row.narr)
    ELSE IF notna(row.ndep) /\ Val(row.ndep) # <<"-">>
         THEN extract_company_code(row.ndep)
         ELSE NaT

\* df["Compagnie"] = df.apply(lambda row: ..., axis=1)
EteCompagnie ==
    /\ pc = "ete_compagnie"
    /\ df' = [j \in Labels(raw) |->
                 [Arr |-> df[j].Arr, Dep |-> df[j].Dep,
                  Start |-> df[j].Start, End |-> df[j].End,
                  Compagnie |-> Compagnie(raw[j])]]
    /\ pc' = "ete_dropna"
    /\ UNCHANGED <<pageVars, schedVars, norm, raw, out>>

\* df = df.dropna(subset=["Start", "End"]); return df
EteDropna ==
    /\ pc = "ete_dropna"
    /\ out' = SelectSeq([j \in Labels(raw) |-> j],
                        LAMBDA j : notna(df[j].Start) /\ notna(df[j].End))
    /\ pc' = "done"
    /\ UNCHANGED <<pageVars, schedVars, norm, raw, df>>

\* flight code cells: empty, 'FR1', 'A1B', '12'; '-' in the summer sheet
CodeCells == {NaT, At(<<"F", "R", "1">>), At(<<"A", "1", "B">>),
              At(<<"1", "2">>)}
EteCodeCells == CodeCells \cup {At(<<"-">>)}

\* raw rows: every time cell with the flight codes empty, and every pair of
\* flight codes with an empty or a readable time cell
PreRows == [HA : PreCells, HD : PreCells, VOLA : {NaT}, VOLD : {NaT}]
PreCodeRows ==
    [HA : {Cell("nan", 0, 0, 0), Cell("str2", 0, 10, 0)},
     HD : {Cell("nan", 0, 0, 0), Cell("str3", 12, 0, 0)},
     VOLA : CodeCells, VOLD : CodeCells]
EteRows == [Arr : EteCells, Dep : EteCells, narr : {NaT}, ndep : {NaT}]
EteCodeRows ==
    [Arr : {ECell("nan", 0), ECell("int", 10)},
     Dep : {ECell("dash", 0), ECell("int", 2345)},
     narr : EteCodeCells, ndep : EteCodeCells]

InitNorm ==
    /\ pc = "start"
    /\ \/ /\ norm = "preprocess_data"
          /\ raw \in TablesUpTo(PreRows, MaxRawRows)
                       \cup TablesUpTo(PreCodeRows, MaxCodeRows)
       \/ /\ norm = "prepare_data"
          /\ raw \in TablesUpTo(EteRows, MaxRawRows)
                       \cup TablesUpTo(EteCodeRows, MaxCodeRows)
    /\ df = <<>> /\ out = <<>>
    /\ policy = "none" /\ data = <<>> /\ order = <<>> /\ VacationLine = <<>>
    /\ idx = 0 /\ vacation_line = 0 /\ amplitude_hours = 0 /\ gap_minutes = 0
    /\ written = {} /\ anchors = <<>>
    /\ calls = 0 /\ NoPage

NextNorm ==
    \/ PreParse \/ PreNightStop \/ PreDepartSec \/ PreCompany \/ PreReturn
    \/ EteFormat \/ EteStartEnd \/ EteAdjust \/ EteCompagnie \/ EteDropna

SpecNorm == InitNorm /\ [][NextNorm]_vars

\* ------------------------------------------------------------ the pages
\* --- Eté_2025.py: the script after df = prepare_data(df) ---
\* "05:00", minutes from midnight of the selected date
GridStart == 300
\* the last instant of the grids ("23:59" in the script, cut here)
GridEnd == GridStart + MaxGrid

\* pd.date_range(lo, hi, freq=...): lo, lo + freq, ... up to hi
date_range(lo, hi, freq) ==
    [k \in 1..((hi - lo) \div freq + 1) |-> lo + (k - 1) * freq]

time_range == date_range(GridStart, GridEnd, 1)
time_range_escabeaux == date_range(GridStart, GridEnd, 15)

\* the values of a sequence in order of first appearance (Series.unique())
RECURSIVE Unique(_)
Unique(s) ==
    IF s = <<>> THEN <<>>
    ELSE LET u == Unique(SubSeq(s, 1, Len(s) - 1))
             x == s[Len(s)]
         IN IF \E k \in 1..Len(u) : u[k] = x THEN u ELSE Append(u, x)

\* an interval is counted from its start up to, not including, its end
covers_halfopen(j, time) == Val(df[j].Start) <= time /\ Val(df[j].End) > time

\* (df_filtered["Start"] <= time) & (df_filtered["End"] >= time)
covers(j, time) == Val(df[j].Start) <= time /\ Val(df[j].End) >= time

\* compagnies = df["Compagnie"].dropna().unique()
EteCompagnies ==
    /\ pc = "done" /\ page = "Ete"
    /\ compagnies' =
          Unique([k \in 1..Len(SelectSeq(out, LAMBDA j : notna(df[j].Compagnie)))
                    |-> Val(df[SelectSeq(out, LAMBDA j :
                                             notna(df[j].Compagnie))[k]].Compagnie)])
    /\ pc' = "select_date"
    /\ UNCHANGED <<schedVars, normVars, page, selected_date, df_filtered,
                   charge_global, charge, besoin_escabeaux,
                   flights_per_company, total_flights, pdf_total_flights>>

\* unique_dates = df["Date"].dt.date.unique(); selected_date = selectbox(...);
\* `if selected_date:` df_filtered = df[df["Date"].dt.date == selected_date]
EteSelectDate ==
    /\ pc = "select_date" /\ page = "Ete"
    /\ IF out = <<>>
       THEN /\ pc' = "page_done"
            /\ UNCHANGED <<selected_date, df_filtered>>
       ELSE /\ \E j \in {out[k] : k \in 1..Len(out)} :
                  selected_date' = raw[j].Date
            /\ df_filtered' =
                  SelectSeq(out, LAMBDA j : raw[j].Date = selected_date')
            /\ pc' = "charge_global"
    /\ UNCHANGED <<schedVars, normVars, page, compagnies, charge_global,
                   charge, besoin_escabeaux, flights_per_company,
                   total_flights, pdf_total_flights>>

\* for time in time_range: count = (...).sum(); charge_global.append(count)
EteChargeGlobal ==
    /\ pc = "charge_global"
    /\ charge_global' =
          [k \in DOMAIN time_range |->
              Len(SelectSeq(df_filtered, LAMBDA j : covers(j, time_range[k])))]
    /\ pc' = "charge"
    /\ UNCHANGED <<schedVars, normVars, page, selected_date, df_filtered,
                   compagnies, charge, besoin_escabeaux, flights_per_company,
                   total_flights, pdf_total_flights>>

\* the frame of a company without the filter on "Compagnie"
df_compagnie_all(compagnie) == df_filtered

\* df_compagnie = df_filtered[df_filtered["Compagnie"] == compagnie]
df_compagnie(compagnie) ==
    SelectSeq(df_filtered, LAMBDA j : df[j].Compagnie = At(compagnie))

\* for compagnie in compagnies: ... for time in time_range: charge.append(count)
EteCharge ==
    /\ pc = "charge"
    /\ charge' =
          [c \in 1..Len(compagnies) |->
              [k \in DOMAIN time_range |->
                  Len(SelectSeq(df_compagnie(compagnies[c]),
                                LAMBDA j : covers(j, time_range[k])))]]
    /\ pc' = "escabeaux"
    /\ UNCHANGED <<schedVars, normVars, page, selected_date, df_filtered,
                   compagnies, charge_global, besoin_escabeaux,
                   flights_per_company, total_flights, pdf_total_flights>>

\* every active flight needs one stepladder
total_escabeaux_flat(count_fr, count_other) == count_fr + count_other

\* total_escabeaux = count_fr * 1 + count_other * 2
total_escabeaux(count_fr, count_other) == count_fr * 1 + count_other * 2

\* the active flights without those that have no company
active_vols_resolved(time) ==
    SelectSeq(df_filtered, LAMBDA j : covers(j, time) /\ notna(df[j].Compagnie))

\* active_vols = df_filtered[(Start <= time) & (End >= time)]
active_vols(time) == SelectSeq(df_filtered, LAMBDA j : covers(j, time))

\* for time in time_range_escabeaux: count_fr = (... == "FR").sum();
\* count_other = (... != "FR").sum(); besoin_escabeaux.append(total_escabeaux)
EteEscabeaux ==
    /\ pc = "escabeaux"
    /\ besoin_escabeaux' =
          [k \in DOMAIN time_range_escabeaux |->
              LET active == active_vols(time_range_escabeaux[k])
                  count_fr ==
                      Len(SelectSeq(active, LAMBDA j :
                                        df[j].Compagnie = At(<<"F", "R">>)))
                  count_other ==
                      Len(SelectSeq(active, LAMBDA j :
                                        df[j].Compagnie # At(<<"F", "R">>)))
              IN total_escabeaux(count_fr, count_other)]
    /\ pc' = "page_done"
    /\ UNCHANGED <<schedVars, normVars, page, selected_date, df_filtered,
                   compagnies, charge_global, charge, flights_per_company,
                   total_flights, pdf_total_flights>>

\* --- Planches_de_vols.py: the script after cached_preprocess_data ---
\* available_dates = raw_data['DATE'].unique(); selected_date = selectbox(...);
\* filtered_data = raw_data[pd.to_datetime(raw_data['DATE']) == selected_date]
PlanchesSelectDate ==
    /\ pc = "done" /\ page = "Planches"
    /\ IF out = <<>>
       THEN /\ pc' = "page_done"
            /\ UNCHANGED <<selected_date, df_filtered>>
       ELSE /\ \E j \in {out[k] : k \in 1..Len(out)} :
                  selected_date' = raw[j].DATE
            /\ df_filtered' =
                  SelectSeq(out, LAMBDA j : raw[j].DATE = selected_date')
            /\ pc' = "stats"
    /\ UNCHANGED <<schedVars, normVars, page, compagnies, charge_global,
                   charge, besoin_escabeaux, flights_per_company,
                   total_flights, pdf_total_flights>>

\* the sum of the values of the function f over the set S
RECURSIVE Sum(_, _)
Sum(f, S) ==
    IF S = {} THEN 0
    ELSE LET x == CHOOSE y \in S : TRUE IN f[x] + Sum(f, S \ {x})

\* groupby keeping the rows whose key is NaN, all in one group
groupby_size_keepna(labels) ==
    [c \in {df[labels[k]].Company : k \in 1..Len(labels)} |->
        Len(SelectSeq(labels, LAMBDA j : df[j].Company = c))]

\* data.groupby(['Company']).size(): one group per non-null Company, the
\* rows whose Company is NaN are in no group
groupby_size(labels) ==
    [c \in {df[labels[k]].Company : k \in 1..Len(labels)} \ {NaT} |->
        Len(SelectSeq(labels, LAMBDA j : df[j].Company = c))]

\* calculate_flight_stats(filtered_data):
\* flights_per_company = data.groupby(['Company']).size()...;
\* total_flights = flights_per_company['Nombre de vols'].sum()
FlightStats ==
    /\ pc = "stats"
    /\ flights_per_company' = groupby_size(df_filtered)
    /\ total_flights' = Sum(flights_per_company', DOMAIN flights_per_company')
    /\ pc' = "report"
    /\ UNCHANGED <<schedVars, normVars, page, selected_date, df_filtered,
                   compagnies, charge_global, charge, besoin_escabeaux,
                   pdf_total_flights>>

\* create_pdf_report(filtered_data, ...): total_flights = len(data)
PdfReport ==
    /\ pc = "report"
    /\ pdf_total_flights' = Len(df_filtered)
    /\ pc' = "page_done"
    /\ UNCHANGED <<schedVars, normVars, page, selected_date, df_filtered,
                   compagnies, charge_global, charge, besoin_escabeaux,
                   flights_per_company, total_flights>>

\* the sheets a page loads: a few time cells and flight codes, two dates
PageEteRows ==
    {[Arr |-> t[1], Dep |-> t[2], narr |-> NaT, ndep |-> c, Date |-> d] :
        t \in {<<ECell("nan", 0), ECell("int", 515)>>,
               <<ECell("int", 500), ECell("dash", 0)>>,
               <<ECell("int", 515), ECell("dash", 0)>>},
        c \in CodeCells, d \in {1, 2}}

PagePlanchesRows ==
    [HA : {Cell("str2", 0, 10, 0)},
     HD : {Cell("nan", 0, 0, 0), Cell("str3", 12, 0, 0)},
     VOLA : {NaT, At(<<"A", "1", "B">>)},
     VOLD : {NaT, At(<<"F", "R", "1">>), At(<<"1", "2">>)},
     DATE : {1, 2}]

InitPage ==
    /\ pc = "start"
    /\ \/ /\ page = "Ete" /\ norm = "prepare_data"
          /\ raw \in TablesUpTo(PageEteRows, MaxDayRows)
       \/ /\ page = "Planches" /\ norm = "preprocess_data"
          /\ raw \in TablesUpTo(PagePlanchesRows, MaxDayRows)
    /\ df = <<>> /\ out = <<>>
    /\ policy = "none" /\ data = <<>> /\ order = <<>> /\ VacationLine = <<>>
    /\ idx = 0 /\ vacation_line = 0 /\ amplitude_hours = 0 /\ gap_minutes = 0
    /\ written = {} /\ anchors = <<>> /\ calls = 0
    /\ selected_date = 0 /\ df_filtered = <<>>
    /\ compagnies = <<>> /\ charge_global = <<>> /\ charge = <<>>
    /\ besoin_escabeaux = <<>> /\ flights_per_company = <<>>
    /\ total_flights = 0 /\ pdf_total_flights = 0

NextPage ==
    \/ NextNorm
    \/ EteCompagnies \/ EteSelectDate \/ EteChargeGlobal \/ EteCharge
    \/ EteEscabeaux
    \/ PlanchesSelectDate \/ FlightStats \/ PdfReport

SpecPage == InitPage /\ [][NextPage]_vars

\* ------------------------------------------------------ fair execution
\* assign_vacation_lines is a sequential loop: a step that is enabled is
\* taken
InitLive ==
    /\ pc = "start" /\ policy = "B"
    /\ data \in TablesUpTo(Rows, MaxLiveRows)
    /\ amplitude_hours \in AmplitudeHours
    /\ gap_minutes \in GapMinutes
    /\ order = <<>> /\ VacationLine = <<>>
    /\ idx = 0 /\ vacation_line = 0
    /\ written = {} /\ anchors = <<>>
    /\ norm = "none" /\ raw = <<>> /\ df = <<>> /\ out = <<>>
    /\ calls = 1 /\ NoPage

NextLive == AssignStart \/ AssignRound \/ AssignDone

LiveSpec == InitLive /\ [][NextLive]_vars /\ WF_vars(NextLive)

\* ----------------------------------------------------------- properties
Valid(r) == r.HA <= r.HD
AllValid(d) == \A j \in Labels(d) : Valid(d[j])
Finished(p) == pc = "done" /\ policy = p

\* the anchor of the line that row j is on
AnchorOf(j) == anchors[VacationLine[j] + 1]

SameLine(i, j) == i # j /\ VacationLine[i] = VacationLine[j]

\* C1 as stated: when Policy B has finished on a table of intervals with
\* start <= end, every interval, the anchor included, ends no later than
\* anchor.start + Amplitude.
C1_AllWithinWindow ==
    (Finished("B") /\ AllValid(data)) =>
        \A j \in Labels(data) :
            data[j].HD <= data[AnchorOf(j)].HA + Hours(amplitude_hours)

\* C1 amended: when Policy B has finished, every interval that joined a line
\* (every member other than the anchor) ends no later than
\* anchor.start + Amplitude, and so does an anchor that is itself no longer
\* than Amplitude.
C1_JoinersWithinWindow ==
    Finished("B") =>
        \A j \in Labels(data) :
            (\/ j # AnchorOf(j)
             \/ data[j].HD - data[j].HA <= Hours(amplitude_hours))
            => data[j].HD <= data[AnchorOf(j)].HA + Hours(amplitude_hours)

\* a finished run with an anchor longer than Amplitude and a joiner on a line
C1_Witness ==
    /\ Finished("B") /\ AllValid(data)
    /\ \E j \in Labels(data) : j # AnchorOf(j)
    /\ \E j \in Labels(data) :
          /\ j = AnchorOf(j)
          /\ data[j].HD - data[j].HA > Hours(amplitude_hours)

\* C2: under Policy B, any two distinct intervals on one line fail the
\* gap-adjusted overlap test, whichever of them is the anchor or joined
\* first; for intervals with start <= end the one that starts later
\* starts at least Gap after the other one ends.
C2_PairwiseGap ==
    (policy = "B" /\ pc \in {"assign_loop", "done"}) =>
        \A i, j \in Labels(data) :
            (SameLine(i, j) /\ VacationLine[i] # -1) =>
                /\ ~GapConflict(data[i], data[j], Minutes(gap_minutes))
                /\ (Valid(data[i]) /\ Valid(data[j]) /\ data[i].HA < data[j].HA)
                      => data[j].HA >= data[i].HD + Minutes(gap_minutes)

\* a finished line with three members, i.e. with a pair that is neither
\* anchor-joiner nor consecutive
C2_Witness ==
    /\ Finished("B") /\ gap_minutes > 0 /\ AllValid(data)
    /\ \E i, j, k \in Labels(data) :
          /\ SameLine(i, j) /\ SameLine(j, k) /\ SameLine(i, k)
          /\ data[i].HA < data[j].HA /\ data[j].HA < data[k].HA

\* C3: when either scheduler has returned, the scan has written the line of
\* every row (none is left at -1, none keeps the initial 0 because the scan
\* found no line), and at most as many lines are used as there are rows.
C3_Totality ==
    pc = "done" =>
        /\ written = Labels(data)
        /\ \A j \in Labels(data) : VacationLine[j] >= 0
        /\ Cardinality(unique(VacationLine)) <= Len(data)

\* both schedulers finish on a table that needs one line per row
C3_Witness ==
    /\ pc = "done" /\ Len(data) = MaxRows
    /\ Cardinality(unique(VacationLine)) = Len(data)

\* a.start < b.end AND b.start < a.end
Overlap(a, b) == a.HA < b.HD /\ b.HA < a.HD

\* C4: when Policy A has processed all rows, no two distinct rows with the
\* same line index overlap.
C4_NoOverlapOnLine ==
    Finished("A") =>
        \A i, j \in Labels(data) :
            SameLine(i, j) => ~Overlap(data[i], data[j])

\* a finished run with a zero-duration interval sharing a line, and with
\* two overlapping intervals (on different lines)
C4_Witness ==
    /\ Finished("A") /\ AllValid(data)
    /\ \E i, j \in Labels(data) : SameLine(i, j) /\ data[i].HA = data[i].HD
    /\ \E i, j \in Labels(data) : i # j /\ Overlap(data[i], data[j])

\* number of intervals active at t (start <= t <= end)
Active(d, t) == Cardinality({j \in Labels(d) : d[j].HA <= t /\ t <= d[j].HD})

\* the largest number of simultaneously active intervals (the count only
\* rises at a start instant)
MaxActive(d) == Max({0} \cup {Active(d, d[j].HA) : j \in Labels(d)})

AllPositive(d) == \A j \in Labels(d) : d[j].HA < d[j].HD

AscendingStart(d) == \A i, j \in Labels(d) : i < j => d[i].HA <= d[j].HA

RECURSIVE FirstFit(_, _)
FirstFit(d, n) ==
    IF n = 0 THEN <<>>
    ELSE LET prev == FirstFit(d, n - 1)
             blocked == {prev[i] : i \in {k \in 1..(n - 1) : Overlap(d[k], d[n])}}
         IN Append(prev, Min((0..n) \ blocked))

\* C6: Policy A's line indices are those of first fit run in ingestion
\* order: each row on the lowest line holding no overlapping earlier row,
\* the first row on line 0.
C6_IsFirstFit ==
    (Finished("A") /\ AllValid(data)) =>
        VacationLine = FirstFit(data, Len(data))

Unassigned == {j \in Labels(data) : VacationLine[j] = -1}

\* C7: Policy B terminates: every round assigns its anchor, so the set of
\* unassigned rows strictly shrinks; the loop runs at most n rounds and
\* ends with no row at -1.
C7_Terminates ==
    /\ [][AssignRound =>
            /\ Head(unassigned_flights(order, VacationLine)) \notin Unassigned'
            /\ Unassigned' \subseteq Unassigned
            /\ Cardinality(Unassigned') < Cardinality(Unassigned)
            /\ vacation_line' <= Len(data)]_vars
    /\ <>(pc = "done" /\ Unassigned = {})

\* the loop has run as many rounds as there are rows
C7_Witness ==
    /\ Finished("B") /\ Len(data) = MaxLiveRows /\ vacation_line = Len(data)

\* C8: Amplitude 8 h, Gap 10 min, A=[08:00,08:40], B=[08:20,09:00],
\* C=[09:10,09:50] gives line 0 = {A, C}, line 1 = {B}.
C8_Scenario ==
    (Finished("B") /\ data = ScenarioABC
        /\ amplitude_hours = 8 /\ gap_minutes = 10) =>
        /\ VacationLine = <<0, 1, 0>>
        /\ anchors = <<1, 2>>

C8_Witness ==
    /\ Finished("B") /\ data = ScenarioABC
    /\ amplitude_hours = 8 /\ gap_minutes = 10
    /\ vacation_line = 2

\* ------------------------------------------------- normalizer properties
Emitted == {out[k] : k \in 1..Len(out)}
StartOf(j) == IF norm = "preprocess_data" THEN df[j].HA ELSE df[j].Start
EndOf(j) == IF norm = "preprocess_data" THEN df[j].HD ELSE df[j].End

\* the clock reading (minutes after midnight) a raw cell shows, if any
Shown(c) ==
    IF norm = "preprocess_data"
    THEN IF c.kind \in {"str2", "str3", "time"} /\ c.h <= 23 /\ c.m <= 59
         THEN At(60 * c.h + c.m) ELSE NaT
    ELSE IF c.kind = "int" /\ (c.n \div 100) <= 23 /\ (c.n % 100) <= 59
         THEN At(60 * (c.n \div 100) + (c.n % 100)) ELSE NaT

RawArr(j) == IF norm = "preprocess_data" THEN raw[j].HA ELSE raw[j].Arr
RawDep(j) == IF norm = "preprocess_data" THEN raw[j].HD ELSE raw[j].Dep

\* the default duration of the running normalizer
D == IF norm = "preprocess_data" THEN 30 ELSE 35

\* C9: every interval a normalizer returns has start <= end.
C9_StartLeEnd ==
    pc = "done" =>
        \A j \in Emitted :
            (notna(StartOf(j)) /\ notna(EndOf(j)))
                => Val(StartOf(j)) <= Val(EndOf(j))

\* C10: a row with only the departure time usable is returned with
\* end = that time and start = end - D; a row with only the arrival time
\* usable is returned with start = that time and end = start + D
\* (D = 30 min in preprocess_data, 35 min in prepare_data).
C10_OneSided ==
    pc = "done" =>
        \A j \in Labels(raw) :
            /\ (isna(Shown(RawArr(j))) /\ notna(Shown(RawDep(j)))
                /\ (norm = "prepare_data" => RawArr(j).kind \in {"nan", "dash"}))
                  => /\ j \in Emitted
                     /\ EndOf(j) = Shown(RawDep(j))
                     /\ StartOf(j) = At(Val(Shown(RawDep(j))) - D)
            /\ (isna(Shown(RawDep(j))) /\ notna(Shown(RawArr(j)))
                /\ (norm = "prepare_data" => RawDep(j).kind \in {"nan", "dash"}))
                  => /\ j \in Emitted
                     /\ StartOf(j) = Shown(RawArr(j))
                     /\ EndOf(j) = At(Val(Shown(RawArr(j))) + D)

\* prepare_data has returned a departure-only row that starts on the
\* previous day and an arrival-only row that ends on the next day
C10_Witness ==
    /\ pc = "done" /\ norm = "prepare_data" /\ Len(out) = 2
    /\ raw[1].Arr.kind = "dash" /\ raw[2].Dep.kind = "nan"
    /\ StartOf(1) = At(-25) /\ EndOf(1) = At(10)
    /\ StartOf(2) = At(1425) /\ EndOf(2) = At(1460)

\* neither cell of raw row j shows a usable clock reading
Neither(j) == isna(Shown(RawArr(j))) /\ isna(Shown(RawDep(j)))

\* C11: when a normalizer has returned, a raw row with neither a usable
\* arrival time nor a usable departure time is absent from the output, and
\* the other rows of its batch (those with a usable time) are present.
C11_NeitherDropped ==
    pc = "done" =>
        \A j \in Labels(raw) :
            Neither(j) =>
                /\ j \notin Emitted
                /\ \A k \in Labels(raw) : ~Neither(k) => k \in Emitted

\* the raw cell is empty ('-' counts as empty in the summer sheet)
Absent(c) == c.kind = "nan" \/ (norm = "prepare_data" /\ c.kind = "dash")

\* the raw cell holds a value that matches no recognized layout
Unparsable(c) == ~Absent(c) /\ isna(Shown(c))

\* C12: when a normalizer has returned, a row with an unparsable arrival
\* time and a valid departure time is in the output with end = the
\* departure time and start = end - D, as if the arrival cell were empty;
\* a row with an unparsable departure time and a valid arrival time is in
\* the output with start = the arrival time and end = start + D.
C12_UnparsableAsAbsent ==
    pc = "done" =>
        \A j \in Labels(raw) :
            /\ (Unparsable(RawArr(j)) /\ notna(Shown(RawDep(j))))
                  => /\ j \in Emitted
                     /\ EndOf(j) = Shown(RawDep(j))
                     /\ StartOf(j) = At(Val(Shown(RawDep(j))) - D)
            /\ (Unparsable(RawDep(j)) /\ notna(Shown(RawArr(j))))
                  => /\ j \in Emitted
                     /\ StartOf(j) = Shown(RawArr(j))
                     /\ EndOf(j) = At(Val(Shown(RawArr(j))) + D)

CategoryOf(j) ==
    IF norm = "preprocess_data" THEN df[j].Company ELSE df[j].Compagnie
ArrCode(j) == IF norm = "preprocess_data" THEN raw[j].VOLA ELSE raw[j].narr
DepCode(j) == IF norm = "preprocess_data" THEN raw[j].VOLD ELSE raw[j].ndep

\* the leading alphabetic run of a flight code, if the code is present and
\* starts with a letter
Prefix(code) ==
    IF notna(code) /\ LeadingRun(Val(code)) # <<>>
    THEN At(LeadingRun(Val(code))) ELSE NaT

\* C13: when a normalizer has returned, the category of every returned row
\* is the leading alphabetic run of its departure-side code when there is
\* one, otherwise that of its arrival-side code, otherwise null.
C13_DepartureFirst ==
    pc = "done" =>
        \A j \in Emitted :
            CategoryOf(j) = IF notna(Prefix(DepCode(j)))
                            THEN Prefix(DepCode(j))
                            ELSE Prefix(ArrCode(j))

\* ------------------------------------------------------- page properties
\* rows of the selected day, as positions of df_filtered
DayRows == 1..Len(df_filtered)
DayStart(p) == Val(df[df_filtered[p]].Start)
DayEnd(p) == Val(df[df_filtered[p]].End)
DayCategory(p) == df[df_filtered[p]].Compagnie

\* the rows of the selected day active at instant t, bounds included
ActiveAt(t) == {p \in DayRows : DayStart(p) <= t /\ t <= DayEnd(p)}

ChargeGlobalDone ==
    page = "Ete" /\ pc \in {"charge", "escabeaux", "page_done"}
        /\ selected_date # 0

\* C14: charge_global holds one count per minute of the grid, in grid
\* order, and the count for instant t is the number of intervals of the
\* selected day with start <= t <= end.
C14_SamplerCount ==
    ChargeGlobalDone =>
        /\ Len(charge_global) = GridEnd - GridStart + 1
        /\ \A k \in 1..Len(charge_global) :
               charge_global[k] = Cardinality(ActiveAt(GridStart + (k - 1)))

\* an instant where one interval ends and another one starts: two are
\* counted there, one a minute before and one a minute after
C14_Witness ==
    /\ ChargeGlobalDone
    /\ \E k \in 2..(Len(charge_global) - 1) :
          /\ charge_global[k] = 2
          /\ charge_global[k - 1] = 1 /\ charge_global[k + 1] = 1
          /\ \E p, q \in DayRows :
                DayEnd(p) = GridStart + (k - 1) /\ DayStart(q) = GridStart + (k - 1)

EscabeauxDone == page = "Ete" /\ pc = "page_done" /\ selected_date # 0

\* the privileged category
FR == <<"F", "R">>

\* C15: besoin_escabeaux holds, for every quarter of an hour t of the grid,
\* 1 * countX(t) + 2 * countY(t), where countX counts the intervals active
\* at t (start <= t <= end) of category FR and countY the active intervals
\* of any other category (an unset category included).
C15_WeightedDemand ==
    EscabeauxDone =>
        /\ Len(besoin_escabeaux) = (GridEnd - GridStart) \div 15 + 1
        /\ \A k \in 1..Len(besoin_escabeaux) :
              LET t == GridStart + 15 * (k - 1)
                  countX == Cardinality({p \in ActiveAt(t) : DayCategory(p) = At(FR)})
                  countY == Cardinality({p \in ActiveAt(t) : DayCategory(p) # At(FR)})
              IN besoin_escabeaux[k] = 1 * countX + 2 * countY

\* an FR interval and an interval of another company active together
C15_Witness ==
    /\ EscabeauxDone
    /\ \E k \in 1..Len(besoin_escabeaux) :
          /\ besoin_escabeaux[k] = 3
          /\ \E p, q \in ActiveAt(GridStart + 15 * (k - 1)) :
                /\ DayCategory(p) = At(FR)
                /\ notna(DayCategory(q)) /\ DayCategory(q) # At(FR)

\* neither flight code of the raw row yields an alphabetic prefix
Unresolved(j) == isna(Prefix(raw[j].narr)) /\ isna(Prefix(raw[j].ndep))

\* C16: an interval of the selected day whose category cannot be resolved
\* has a null category, is counted in charge_global at every instant of the
\* grid where it is active, and is counted in no per-company series: each
\* series counts resolved intervals only.
C16_NullKeptAndUncounted ==
    EscabeauxDone =>
        /\ \A p \in DayRows :
              Unresolved(df_filtered[p]) =>
                 /\ isna(DayCategory(p))
                 /\ \A k \in 1..Len(charge_global) :
                       p \in ActiveAt(GridStart + (k - 1)) => charge_global[k] >= 1
        /\ \A c \in 1..Len(charge) : \A k \in 1..Len(charge[c]) :
              charge[c][k] =
                  Cardinality({p \in ActiveAt(GridStart + (k - 1)) :
                                  /\ ~Unresolved(df_filtered[p])
                                  /\ DayCategory(p) = At(compagnies[c])})

StatsDone == page = "Planches" /\ pc = "page_done" /\ selected_date # 0

\* C17: the total_flights of calculate_flight_stats is the number of rows
\* of the selected day, rows with a null Company included, the same number
\* as the total_flights of create_pdf_report.
C17_TotalIsRowCount ==
    StatsDone =>
        /\ total_flights = Len(df_filtered)
        /\ total_flights = pdf_total_flights

\* ----------------------------------------------- scheduler re-invocation
\* the column a first call of create_interactive_gantt leaves on table d:
\* rows i.. of the loop run on the column VL
RECURSIVE GanttAll(_, _, _)
GanttAll(d, VL, i) ==
    IF i > Len(d) THEN VL
    ELSE LET free == FreeLines(d, VL, d[i])
         IN GanttAll(d, IF free = {} THEN VL
                        ELSE [VL EXCEPT ![i] = chosen_line(free)], i + 1)

\* the column a call of assign_vacation_lines returns for table d sorted as
\* o: the rounds from line number `line` on, run on the column VL
RECURSIVE AssignAll(_, _, _, _, _, _)
AssignAll(d, o, VL, line, amp_h, gap_m) ==
    IF unassigned_flights(o, VL) = <<>> THEN VL
    ELSE LET members == line_members(RoundFlights(d, o, VL, amp_h, gap_m))
         IN AssignAll(d, o, [j \in Labels(d) |->
                                IF j \in members THEN line ELSE VL[j]],
                      line + 1, amp_h, gap_m)

\* the assignment of a first call on a table that no call has touched
Fresh ==
    IF policy = "A"
    THEN GanttAll(data, [j \in Labels(data) |-> 0], 1)
    ELSE AssignAll(data, order, [j \in Labels(data) |-> -1], 0,
                   amplitude_hours, gap_minutes)

\* C18: whenever a scheduler returns, on its first call or on a later call
\* on the same table (Policy A on the table it annotated before, Policy B
\* with whatever Amplitude and Gap the call is given), the line assignment
\* is the one a first call with the same parameters produces.
C18_SameAsFresh ==
    pc = "done" => VacationLine = Fresh

\* Policy A has returned from a second call on a table whose column held
\* lines other than 0 when the call started
C18_Witness ==
    /\ Finished("A") /\ calls = MaxCalls /\ Len(data) = 2
    /\ \E i, j \in Labels(data) : VacationLine[i] = 1 /\ VacationLine[j] = 2

\* --------------------------------------------------- Policy B line bounds
\* the instants at which an interval of d starts or ends
Points(d) == {d[j].HA : j \in Labels(d)} \cup {d[j].HD : j \in Labels(d)}

\* total length of the union of the intervals of d: the segments between
\* consecutive points that lie inside some interval
UnionLength(d) ==
    LET P == Points(d)
        seg == [a \in {p \in P : \E q \in P : q > p} |->
                   LET b == Min({q \in P : q > a})
                   IN IF \E j \in Labels(d) : d[j].HA <= a /\ b <= d[j].HD
                      THEN b - a ELSE 0]
    IN Sum(seg, DOMAIN seg)

\* the ceiling of a / b for a >= 0, b > 0
CeilDiv(a, b) == (a + b - 1) \div b

NoLongerThanAmplitude(d) ==
    \A j \in Labels(d) : d[j].HD - d[j].HA <= Hours(amplitude_hours)

\* C19: when Policy B has returned, the number of lines is at most the
\* number of intervals and, when every interval is no longer than
\* Amplitude, at least the ceiling of (length of the union of the
\* intervals / Amplitude).
C19_LineCountBounds ==
    Finished("B") =>
        /\ Cardinality(unique(VacationLine)) <= Len(data)
        /\ NoLongerThanAmplitude(data) =>
              Cardinality(unique(VacationLine))
                  >= CeilDiv(UnionLength(data), Hours(amplitude_hours))

\* three intervals on two lines, the lower bound attained
C19_Witness ==
    /\ Finished("B") /\ AllValid(data) /\ NoLongerThanAmplitude(data)
    /\ Len(data) = 3
    /\ Cardinality(unique(VacationLine)) = 2
    /\ CeilDiv(UnionLength(data), Hours(amplitude_hours)) = 2

\* ------------------------------------------- Policy B first fit over lines
\* position of row label l in the sorted frame
Pos(l) == CHOOSE k \in 1..Len(order) : order[k] = l

\* row x ends after the window of line i
WindowRejects(x, i) ==
    data[x].HD > data[anchors[i + 1]].HA + Hours(amplitude_hours)

\* row x gap-conflicts with a member of line i that precedes it in the
\* sorted frame
GapRejects(x, i) ==
    \E y \in Labels(data) :
        /\ VacationLine[y] = i /\ Pos(y) < Pos(x)
        /\ data[x].HA - Minutes(gap_minutes) < data[y].HD
        /\ data[x].HD + Minutes(gap_minutes) > data[y].HA

\* C20: under Policy B every interval x on a line j > 0 was rejected by
\* every earlier line i < j, either because it ends after
\* anchor_i.start + Amplitude or because it gap-conflicts with a member of
\* line i that precedes it in start order.
C20_FirstFitAcrossLines ==
    (policy = "B" /\ pc \in {"assign_loop", "done"}) =>
        \A x \in Labels(data) :
            \A i \in 0..(VacationLine[x] - 1) :
                WindowRejects(x, i) \/ GapRejects(x, i)

\* a finished run where one interval was pushed down by the window alone
\* and another one by a gap conflict alone
C20_Witness ==
    /\ Finished("B") /\ AllValid(data)
    /\ \E x \in Labels(data) :
          VacationLine[x] > 0 /\ WindowRejects(x, 0) /\ ~GapRejects(x, 0)
    /\ \E x \in Labels(data) :
          VacationLine[x] > 0 /\ GapRejects(x, 0) /\ ~WindowRejects(x, 0)

\* ------------------------------------------------- Policy A line indices
\* the lines that carry an interval with start < end
PositiveLines ==
    {VacationLine[j] : j \in {k \in Labels(data) : data[k].HA < data[k].HD}}

\* C21 as stated: when Policy A has returned, no interval with start < end
\* is on line 0, and the lines used by such intervals are exactly 1..k for
\* some k.
C21_PositiveLinesContiguous ==
    Finished("A") =>
        /\ 0 \notin PositiveLines
        /\ PositiveLines = 1..Cardinality(PositiveLines)

\* C21 amended: when Policy A has returned, no interval with start < end is
\* on line 0; when every interval of the table has start < end, the lines
\* used are exactly 1..k.
C21_AllPositiveLinesContiguous ==
    Finished("A") =>
        /\ 0 \notin PositiveLines
        /\ AllPositive(data) =>
              PositiveLines = 1..Cardinality(PositiveLines)

\* a finished run on intervals with start < end that needs lines 1 and 2
C21_Witness ==
    /\ Finished("A") /\ AllPositive(data) /\ Len(data) = 3
    /\ PositiveLines = {1, 2}

\* ------------------------------------------------ agreement of the policies
DistinctStarts(d) == \A i, j \in Labels(d) : i # j => d[i].HA # d[j].HA

\* max end - min start of table d
Span(d) ==
    Max({d[j].HD : j \in Labels(d)}) - Min({d[j].HA : j \in Labels(d)})

\* the table in the order of the sorted frame
SortedTable == [k \in 1..Len(order) |-> data[order[k]]]

\* the line Policy A gives row label l when it is run on the sorted table
LineA(l) ==
    GanttAll(SortedTable, [k \in Labels(SortedTable) |-> 0], 1)[Pos(l)]

Degenerate ==
    /\ Finished("B") /\ data # <<>>
    /\ AllPositive(data) /\ DistinctStarts(data)
    /\ gap_minutes = 0 /\ Hours(amplitude_hours) >= Span(data)

\* C22: for intervals with start < end and pairwise distinct starts,
\* Policy B with Gap = 0 and Amplitude >= max end - min start puts two
\* intervals on one line exactly when Policy A, run on the intervals in
\* ascending start order, puts them on one line.
C22_SamePartition ==
    Degenerate =>
        \A i, j \in Labels(data) :
            (VacationLine[i] = VacationLine[j]) <=> (LineA(i) = LineA(j))

\* four staggered intervals given out of start order, two lines of two
C22_Witness ==
    /\ Degenerate /\ Len(data) = 4 /\ ~AscendingStart(data)
    /\ Cardinality(unique(VacationLine)) = 2
    /\ \A j \in Labels(data) : \E i \in Labels(data) : SameLine(i, j)

\* the tables that hold the rows of d in another order, as row orders
RowOrders(d) ==
    {p \in [Labels(d) -> Labels(d)] : \A i, j \in Labels(d) : i # j => p[i] # p[j]}

\* the column assign_vacation_lines returns for table d (by row label of
\* d), the sorted frame being o
LinesB(d, o) ==
    AssignAll(d, o, [j \in Labels(d) |-> -1], 0, amplitude_hours, gap_minutes)

\* C23: when the starts are pairwise distinct, Policy B gives every
\* interval the same line index whatever the order of the input rows: for
\* every permutation of the rows, the call on the permuted table returns,
\* for each interval, the line the call on the table returned.
C23_OrderIndependent ==
    (Finished("B") /\ DistinctStarts(data)) =>
        \A p \in RowOrders(data) :
            LET d2 == [k \in Labels(data) |-> data[p[k]]]
            IN \A o2 \in SortedOrders(d2) : \A k \in Labels(data) :
                   LinesB(d2, o2)[k] = VacationLine[p[k]]

\* four staggered intervals given out of start order, on three lines, one
\* of them a joiner
C23_Witness ==
    /\ Finished("B") /\ DistinctStarts(data) /\ Len(data) = 4
    /\ ~AscendingStart(data)
    /\ Cardinality(unique(VacationLine)) = 3

\* ------------------------------------------- breakdown and demand bounds
\* the sum of the per-company series at grid position k
SeriesSum(k) ==
    Sum([c \in 1..Len(charge) |-> charge[c][k]], 1..Len(charge))

\* the rows of the selected day active at t that have no category
NullActiveAt(t) == {p \in ActiveAt(t) : isna(DayCategory(p))}

\* C24: at every minute t of the grid, charge_global(t) is the sum of the
\* per-company counts at t plus the number of active intervals with a null
\* category; so the sum of the per-company series never exceeds
\* charge_global.
C24_BreakdownAddsUp ==
    EscabeauxDone =>
        \A k \in 1..Len(charge_global) :
            /\ charge_global[k] =
                  SeriesSum(k) + Cardinality(NullActiveAt(GridStart + (k - 1)))
            /\ SeriesSum(k) <= charge_global[k]

\* an instant with an interval of a company and an interval without
\* category both active
C24_Witness ==
    /\ EscabeauxDone /\ Len(compagnies) >= 1
    /\ \E k \in 1..Len(charge_global) :
          /\ charge_global[k] = 2 /\ SeriesSum(k) = 1
          /\ Cardinality(NullActiveAt(GridStart + (k - 1))) = 1

\* position in time_range of the k-th instant of time_range_escabeaux
MinuteOf(k) == 15 * (k - 1) + 1

\* C25: at every instant t of both grids,
\* count(t) <= demand(t) <= 2 * count(t) and
\* demand(t) = 2 * count(t) - countFR(t), count being charge_global and
\* countFR the number of active FR intervals; an active interval with a
\* null category weighs 2.
C25_DemandBounds ==
    EscabeauxDone =>
        \A k \in 1..Len(besoin_escabeaux) :
            LET t == GridStart + 15 * (k - 1)
                count == charge_global[MinuteOf(k)]
                countFR == Cardinality({p \in ActiveAt(t) : DayCategory(p) = At(FR)})
                countNull == Cardinality(NullActiveAt(t))
            IN /\ count <= besoin_escabeaux[k]
               /\ besoin_escabeaux[k] <= 2 * count
               /\ besoin_escabeaux[k] = 2 * count - countFR
               /\ besoin_escabeaux[k] >= countFR + 2 * countNull

\* an instant with an FR interval and an interval without category active:
\* count 2, demand 3
C25_Witness ==
    /\ EscabeauxDone
    /\ \E k \in 1..Len(besoin_escabeaux) :
          /\ charge_global[MinuteOf(k)] = 2 /\ besoin_escabeaux[k] = 3
          /\ Cardinality(NullActiveAt(GridStart + 15 * (k - 1))) = 1

====
